---- MODULE Spec2Model ----
(***************************************************************************)
(* A model of rxd: the media pipeline of src/task.rs (Task::execute,       *)
(* Task::download_media), the integrity store of src/db.rs and the task    *)
(* loop of src/main.rs.                                                    *)
(*                                                                         *)
(* Strings are sequences of one-character strings, so that the filename    *)
(* scheme (rsplit, split, format!) is computed as the code computes it.    *)
(* Option<T> is a sequence of length at most one: None is <<>>, Some(x) is *)
(* <<x>>.                                                                  *)
(***************************************************************************)
EXTENDS Integers, Sequences, FiniteSets, TLC

\* -------------------------------------------------------------------- state
VARIABLES
    remote,                 \* the page sequence the timeline API serves
    concurrent_downloads,   \* Task::concurrent_downloads
    local_tz,               \* the offset of the process's Local time zone
    run,                    \* which run of the pipeline this is
    pc,                     \* where Task::execute is: fetch, download, done
    result,                 \* what Task::execute returned: none, Ok, Err
    cursor,                 \* execute's cursor: Option<String>
    page,                   \* execute's page counter
    total_downloaded,       \* execute's total_downloaded
    media_items,            \* the current page's references
    next_cursor,            \* the current page's cursor
    started,                \* how many references the stream has handed out
    dl,                     \* each download_media call's position
    results,                \* each download_media call's result
    successful,             \* the last page's success count
    fs,                     \* the files under the save directory
    media,                  \* the store's media table
    reqs,                   \* history: the cursor of each page request
    resps,                  \* history: each page response received
    gets,                   \* history: media GETs sent in this run
    fetched,                \* history: references fetched and written in full
    clean,                  \* history: no download of this run has failed
    fs_prev,                \* history: the files when the previous run ended
    clean_prev,             \* history: no download of the previous run failed
    result_prev,            \* history: what the previous run returned
    tweets,                 \* the store's tweets table
    vpc,                    \* where a verify_file call is: idle, exists, read, done
    vurl,                   \* the verify_file call's media_url
    vrec,                   \* the record the verify_file call has read
    vresult,                \* what verify_file returned: none, true, false, Err
    hashed,                 \* history: per url, the files that had its hash then
    seen,                   \* history: per tweet_id, its first and last upsert
    asked,                  \* history: per url, what the last upsert_media returned
    account,                \* main: the index of the task in config.tasks
    main_pc,                \* main: idle, new, execute, exit
    main_result,            \* main: none, Ok, Err
    resolved,               \* history: the accounts Task::new was called for
    ref_a, ref_b,           \* two media references, each with a local time zone
    name_a, name_b,         \* the filename computed for each
    progs,                  \* each worker's store calls, in its order
    wpos,                   \* how many of its calls each worker has made
    hash_call,              \* the update_hash calls made: arguments, tables, result
    variants,               \* the variants array of one video media entry
    picked                  \* what extract_media_from_item made of it

verifyVars == <<vpc, vurl, vrec, vresult>>
storeHist  == <<hashed, seen, asked>>
mainVars   == <<account, main_pc, main_result, resolved>>
nameVars   == <<ref_a, ref_b, name_a, name_b>>
workerVars == <<progs, wpos>>
callVars   == <<hash_call, variants, picked>>
others     == <<tweets, verifyVars, storeHist, mainVars, nameVars, workerVars,
               callVars>>

vars == <<remote, concurrent_downloads, local_tz, run, pc, result, cursor, page,
          total_downloaded, media_items, next_cursor, started, dl, results,
          successful, fs, media, reqs, resps, gets, fetched, clean,
          fs_prev, clean_prev, result_prev, others>>

config == <<remote, concurrent_downloads, local_tz>>
hist   == <<fetched, fs_prev, clean_prev, result_prev>>

\* ------------------------------------------------------------------ bounds
\* The longest page sequence the remote timeline serves.
MaxPages == 2
\* The largest number of media references on one page.
MaxItems == 2
\* The concurrency limits tried (Config::concurrent_downloads) are
\* 1..MaxConcurrent: a limit above the number of references on a page behaves
\* as that number does. A limit of 0 is not modelled: what buffer_unordered(0)
\* does is decided by the futures crate, not by this repository.
MaxConcurrent == MaxItems

\* The longest variants array of a video media entry.
MaxVariants == 3

\* The number of tasks in the configuration (Config::tasks).
MaxAccounts == 2

\* The page counter of Task::execute never passes this in a terminating run;
\* it only stops a run that would otherwise request pages forever.
MaxPageCounter == MaxPages + 2

\* ------------------------------------------------------------ Option, text
None == <<>>
Some(x) == <<x>>

Max(S) == CHOOSE x \in S : \A y \in S : y <= x
Min(S) == CHOOSE x \in S : \A y \in S : x <= y

\* str::rsplit(ch).next(): the part after the last ch, the whole string
\* when ch does not occur (never None, so unwrap_or is dead code).
rsplit_next(s, ch) ==
    LET hits == {i \in 1..Len(s) : s[i] = ch}
    IN  IF hits = {} THEN s ELSE SubSeq(s, Max(hits) + 1, Len(s))

\* str::split(ch).next(): the part before the first ch.
split_next(s, ch) ==
    LET hits == {i \in 1..Len(s) : s[i] = ch}
    IN  IF hits = {} THEN s ELSE SubSeq(s, 1, Min(hits) - 1)

Digit(n) == <<"0", "1", "2", "3", "4", "5", "6", "7", "8", "9">>[n + 1]
Pad2(n) == <<Digit((n \div 10) % 10), Digit(n % 10)>>

\* --------------------------------------------------------- media references
\* MediaItem.timestamp is an instant with an offset: utc counts the hours
\* since 2025-03-01T00:00Z, off is the offset it was written with.
Timestamp(utc, off) == [utc |-> utc, off |-> off]

\* The media references the remote timeline can serve (struct MediaItem).
\* Items 1 and 2 have different URLs with the same media id and extension.
ItemPool ==
    <<[url |-> <<"p", "/", "a", ".", "j">>, media_type |-> "Image",
       timestamp |-> Timestamp(22, 0)],
      [url |-> <<"q", "/", "a", ".", "j">>, media_type |-> "Image",
       timestamp |-> Timestamp(23, 9)],
      [url |-> <<"v", "/", "b", ".", "m">>, media_type |-> "Video",
       timestamp |-> Timestamp(22, 0)]>>

ItemIds == 1..Len(ItemPool)

\* The offsets (hours east of UTC) the process's local time zone can have.
LocalOffsets == {0, 1}

\* The date is formatted in the timestamp's own offset, without the
\* conversion to Local.
date_str_own_offset(item, tz) ==
    LET hours == item.timestamp.utc + item.timestamp.off
        day   == 1 + (hours \div 24)
    IN  Pad2(20) \o Pad2(25) \o <<"-">> \o Pad2(3) \o <<"-">> \o Pad2(day)

\* item.timestamp.with_timezone(&Local).format("%Y-%m-%d"): the local
\* calendar date of the instant; the timestamp's own offset plays no part.
date_str(item, tz) ==
    LET hours == item.timestamp.utc + tz
        day   == 1 + (hours \div 24)
    IN  Pad2(20) \o Pad2(25) \o <<"-">> \o Pad2(3) \o <<"-">> \o Pad2(day)

NameOrig == <<"?", "n", "a", "m", "e", "=", "o", "r", "i", "g">>

download_url(item) ==
    IF item.media_type = "Image" THEN item.url \o NameOrig ELSE item.url

ext(item) ==
    IF item.media_type = "Image" THEN rsplit_next(item.url, ".")
    ELSE <<"m", "p", "4">>

media_id(item) == split_next(rsplit_next(item.url, "/"), ".")

\* Mutant: the name carries a stamp of the run that wrote it.
filename_stamped(item, date) ==
    date \o <<"-">> \o media_id(item) \o Pad2(run) \o <<".">> \o ext(item)

filename(item, date) == date \o <<"-">> \o media_id(item) \o <<".">> \o ext(item)

\* The task's save directory (Task::save_path) and PathBuf::join.
SavePath == <<"d">>
filepath(item, date) == SavePath \o <<"/">> \o filename(item, date)

\* The bytes the media server serves for a download URL: one body per URL,
\* the same at every request (the remote dataset does not change).
RemoteBody(durl) == <<durl[1]>>


\* A partial write leaves the first n bytes of w over what the file held
\* (File::create has truncated it, another writer may have written since).
Overlay(old, w) ==
    IF Len(w) >= Len(old) THEN w ELSE w \o SubSeq(old, Len(w) + 1, Len(old))

\* ------------------------------------------------------------ remote pages
\* One page as fetch_user_media returns it: the references (ids into
\* ItemPool) and the bottom cursor. Page k's cursor token, when present, is k.
\* A page's list is n references starting at pool entry k: the same
\* reference n times (step 0) or consecutive pool entries (step 1).
ItemList(k, step, n) ==
    [i \in 1..n |-> ((k - 1 + (i - 1) * step) % Len(ItemPool)) + 1]

ItemLists ==
    {ItemList(k, step, n) : k \in ItemIds, step \in {0, 1}, n \in 0..MaxItems}

IsTerminal(p) == p.items = <<>> \/ p.next = None

\* The list served one page further on: every reference moved k places
\* through the pool.
Shift(list, k) == [i \in 1..Len(list) |-> ((list[i] - 1 + k) % Len(ItemPool)) + 1]

EndKinds == {"empty", "no_cursor"}

\* A timeline of n pages built on the list of its first page. The last page
\* ends the pagination (an empty list, or no cursor); page `hole`, when there
\* is one, ends it early in the way holeKind says.
Timeline(list, n, last, hole, holeKind) ==
    [k \in 1..n |->
        [items |-> IF (k = n /\ last = "empty") \/ (k = hole /\ holeKind = "empty")
                   THEN <<>> ELSE Shift(list, k - 1),
         next  |-> IF (k = n /\ last = "no_cursor")
                      \/ (k = hole /\ holeKind = "no_cursor")
                   THEN None ELSE Some(k)]]

\* The finite page sequences the model runs on.
Datasets ==
    {Timeline(list, n, last, hole, holeKind) :
        list \in ItemLists, n \in 1..MaxPages, last \in EndKinds,
        hole \in 0..MaxPages, holeKind \in EndKinds}

\* What the timeline API answers to a request with cursor c: the first page
\* without a cursor, the page after page k for cursor k, and past the end an
\* empty page that repeats the cursor.
ServerPage(d, c) ==
    IF c = None THEN d[1]
    ELSE IF c[1] < Len(d) THEN d[c[1] + 1]
    ELSE [items |-> <<>>, next |-> c]

\* --------------------------------------------------------- integrity store
\* A table is its rows in insertion order; no code deletes a row, so a row's
\* id (INTEGER PRIMARY KEY AUTOINCREMENT) is its position. The created_at
\* columns are not modelled.
calculate_hash(data) == <<"sha256">> \o data

HasTweet(t, tweet_id) == \E i \in 1..Len(t) : t[i].tweet_id = tweet_id

\* INSERT OR REPLACE in place of the ON CONFLICT clause.
upsert_tweet_replace(t, tweet_id, screen_name, tweet_time, full_text) ==
    LET row == [tweet_id |-> tweet_id, screen_name |-> screen_name,
                tweet_time |-> tweet_time, full_text |-> full_text]
    IN  IF HasTweet(t, tweet_id)
        THEN [i \in 1..Len(t) |-> IF t[i].tweet_id = tweet_id THEN row ELSE t[i]]
        ELSE Append(t, row)

\* INSERT INTO tweets ... ON CONFLICT(tweet_id) DO UPDATE SET full_text.
upsert_tweet(t, tweet_id, screen_name, tweet_time, full_text) ==
    IF HasTweet(t, tweet_id)
    THEN [i \in 1..Len(t) |->
            IF t[i].tweet_id = tweet_id
            THEN [t[i] EXCEPT !.full_text = full_text]
            ELSE t[i]]
    ELSE Append(t, [tweet_id |-> tweet_id, screen_name |-> screen_name,
                    tweet_time |-> tweet_time, full_text |-> full_text])

\* No conflict is ever detected.
HasMedia_never(m, media_url) == FALSE

\* media_url is UNIQUE: the row the insert conflicts with.
HasMedia(m, media_url) == \E i \in 1..Len(m) : m[i].media_url = media_url

\* FOREIGN KEY (tweet_id) REFERENCES tweets(tweet_id), which the connection
\* enforces (SqliteConnectOptions::new() turns foreign_keys on): a row is
\* inserted only under a tweet_id the tweets table holds.
ForeignKeyHolds(t, tweet_id) == HasTweet(t, tweet_id)

\* INSERT OR REPLACE in place of the ON CONFLICT clause.
upsert_media_replace(m, t, tweet_id, media_url, fname) ==
    IF HasMedia(m, media_url)
    THEN [i \in 1..Len(m) |->
            IF m[i].media_url = media_url
            THEN [tweet_id |-> m[i].tweet_id, media_url |-> media_url,
                  filename |-> fname, file_hash |-> None]
            ELSE m[i]]
    ELSE IF ForeignKeyHolds(t, tweet_id)
    THEN Append(m, [tweet_id |-> tweet_id, media_url |-> media_url,
                    filename |-> fname, file_hash |-> None])
    ELSE m

\* INSERT INTO media ... ON CONFLICT(media_url) DO UPDATE SET filename. The
\* statement fails, and changes nothing, when it would insert a row whose
\* tweet_id the tweets table t does not hold.
upsert_media(m, t, tweet_id, media_url, fname) ==
    IF HasMedia(m, media_url)
    THEN [i \in 1..Len(m) |->
            IF m[i].media_url = media_url
            THEN [m[i] EXCEPT !.filename = fname]
            ELSE m[i]]
    ELSE IF ForeignKeyHolds(t, tweet_id)
    THEN Append(m, [tweet_id |-> tweet_id, media_url |-> media_url,
                    filename |-> fname, file_hash |-> None])
    ELSE m

\* What upsert_media returns.
upsert_media_result(m, t, tweet_id, media_url) ==
    IF HasMedia(m, media_url) \/ ForeignKeyHolds(t, tweet_id) THEN "Ok" ELSE "Err"

\* An upsert in place of the UPDATE: a url without a row gets one.
update_hash_insert(m, media_url, file_hash) ==
    IF HasMedia(m, media_url)
    THEN [i \in 1..Len(m) |->
            IF m[i].media_url = media_url
            THEN [m[i] EXCEPT !.file_hash = Some(file_hash)]
            ELSE m[i]]
    ELSE Append(m, [tweet_id |-> "t1", media_url |-> media_url,
                    filename |-> None, file_hash |-> Some(file_hash)])

\* What update_hash returns: the number of rows the UPDATE changed is not
\* looked at.
update_hash_result(m, media_url) == "Ok"

\* UPDATE media SET file_hash = ? WHERE media_url = ?
update_hash(m, media_url, file_hash) ==
    [i \in 1..Len(m) |->
        IF m[i].media_url = media_url
        THEN [m[i] EXCEPT !.file_hash = Some(file_hash)]
        ELSE m[i]]

\* SELECT filename, file_hash FROM media WHERE media_url = ?, fetch_optional.
get_media_by_url(m, media_url) ==
    IF HasMedia(m, media_url)
    THEN LET i == Min({j \in 1..Len(m) : m[j].media_url = media_url})
         IN  Some([filename |-> m[i].filename, file_hash |-> m[i].file_hash])
    ELSE None

\* The comparison accepts every file it could read.
HashEqual_always(actual_hash, expected_hash) == TRUE

\* verify_file's last line: actual_hash == expected_hash.
HashEqual(actual_hash, expected_hash) == actual_hash = expected_hash

\* verify_file on a quiescent filesystem f (no file is removed between the
\* existence check and the read).
verify_file(m, f, media_url, dir) ==
    LET record == get_media_by_url(m, media_url)
    IN  IF record = None THEN FALSE
        ELSE IF record[1].filename = None \/ record[1].file_hash = None THEN FALSE
        ELSE LET path == dir \o <<"/">> \o record[1].filename[1]
             IN  IF path \notin DOMAIN f THEN FALSE
                 ELSE HashEqual(calculate_hash(f[path]), record[1].file_hash[1])

\* --------------------------------------------------------------- initial state
NoFiles == [p \in {} |-> <<>>]
NoRows  == <<>>

VerifyIdle ==
    /\ vpc = "idle"
    /\ vurl = None
    /\ vrec = None
    /\ vresult = "none"

StoreHistIdle ==
    /\ hashed = NoFiles
    /\ seen = NoFiles
    /\ asked = NoFiles

MainIdle ==
    /\ account = 1
    /\ main_pc = "idle"
    /\ main_result = "none"
    /\ resolved = {}

NamesIdle ==
    /\ ref_a = None
    /\ ref_b = None
    /\ name_a = None
    /\ name_b = None

WorkersIdle ==
    /\ progs = <<>>
    /\ wpos = <<>>

CallsIdle ==
    /\ hash_call = None
    /\ variants = <<>>
    /\ picked = None

\* No store call, no verify_file call, no main loop, no naming and no
\* worker is under way.
OthersIdle ==
    /\ tweets = NoRows
    /\ VerifyIdle
    /\ StoreHistIdle
    /\ CallsIdle
    /\ MainIdle
    /\ NamesIdle
    /\ WorkersIdle

\* Task::execute has not started.
TaskStart ==
    /\ run = 1
    /\ pc = "fetch"
    /\ result = "none"
    /\ cursor = None
    /\ page = 0
    /\ total_downloaded = 0
    /\ media_items = <<>>
    /\ next_cursor = None
    /\ started = 0
    /\ dl = <<>>
    /\ results = <<>>
    /\ successful = 0
    /\ reqs = <<>>
    /\ resps = <<>>
    /\ gets = 0
    /\ fetched = {}
    /\ clean = TRUE
    /\ fs_prev = NoFiles
    /\ clean_prev = FALSE
    /\ result_prev = "none"

Init ==
    /\ remote \in Datasets
    /\ concurrent_downloads \in 1..MaxConcurrent
    /\ local_tz \in LocalOffsets
    /\ TaskStart
    /\ fs = NoFiles
    /\ media = NoRows
    /\ OthersIdle


\* ------------------------------------------------------------ Task::execute
\* Mutant: an empty page does not end the loop.
IsEmptyBreak_never(items) == FALSE

\* `if media_items.is_empty() { break }`
IsEmptyBreak(items) == items = <<>>

\* Mutants: a missing cursor does not end the loop; the cursor is not advanced.
CursorBreak_never(nc) == FALSE
CursorAfter_stale(nc) == cursor

\* `match next_cursor { Some(c) => cursor = Some(c), None => break }`
CursorBreak(nc) == nc = None
CursorAfter(nc) == nc

\* download_media calls that have started and not yet returned.
InFlight == {i \in 1..Len(dl) : dl[i] \in {"sent", "hung", "create", "write"}}

\* Mutant: every future of the stream is started at once.
SlotFree_unbounded == TRUE

\* buffer_unordered(self.concurrent_downloads) takes the next future from
\* the stream only while fewer than that many are in progress.
SlotFree == Cardinality(InFlight) < concurrent_downloads

\* Mutant: every result is counted, failed or not.
Successful_all(res) == Len(res)

\* `results.iter().filter(|r| r.is_ok()).count()`
Successful(res) == Cardinality({i \in 1..Len(res) : res[i] = "Ok"})

\* Mutant: the existence check looks for the bare filename, not the joined path.
FileExists_bare(f, path) == SubSeq(path, Len(SavePath) + 2, Len(path)) \in DOMAIN f

\* `filepath.exists()`
FileExists(f, path) == path \in DOMAIN f

ItemAt(i) == ItemPool[media_items[i]]
PathAt(i) == filepath(ItemAt(i), date_str(ItemAt(i), local_tz))
BodyAt(i) == RemoteBody(download_url(ItemAt(i)))

WriteTo(f, path, content) ==
    [p \in DOMAIN f \cup {path} |-> IF p = path THEN content ELSE f[p]]

FetchOutcomes == {"page", "error"}

\* One turn of the loop up to the download stage: page += 1, the request
\* with the current cursor, and the response (an error of the request, of the
\* status or of the parse returns Err from execute).
FetchPage(outcome) ==
    /\ pc = "fetch"
    /\ page < MaxPageCounter
    /\ page' = page + 1
    /\ reqs' = Append(reqs, cursor)
    /\ IF outcome = "error"
       THEN /\ pc' = "done"
            /\ result' = "Err"
            /\ UNCHANGED <<media_items, next_cursor, started, dl, results, resps>>
       ELSE LET resp == ServerPage(remote, cursor)
            IN  /\ resps' = Append(resps, resp)
                /\ media_items' = resp.items
                /\ next_cursor' = resp.next
                /\ started' = 0
                /\ dl' = [i \in 1..Len(resp.items) |-> "todo"]
                /\ results' = [i \in 1..Len(resp.items) |-> "none"]
                /\ IF IsEmptyBreak(resp.items)
                   THEN pc' = "done" /\ result' = "Ok"
                   ELSE pc' = "download" /\ result' = result
    /\ UNCHANGED <<config, others, run, cursor, total_downloaded, successful, fs, media,
                   gets, clean, hist>>

\* The stream hands out the next reference and download_media runs to its
\* first await: the filename, the existence check, and either the early
\* return or the GET.
StartDownload ==
    /\ pc = "download"
    /\ started < Len(media_items)
    /\ SlotFree
    /\ LET i == started + 1
       IN  /\ started' = i
           /\ IF FileExists(fs, PathAt(i))
              THEN /\ dl' = [dl EXCEPT ![i] = "done"]
                   /\ results' = [results EXCEPT ![i] = "Ok"]
                   /\ gets' = gets
              ELSE /\ dl' = [dl EXCEPT ![i] = "sent"]
                   /\ results' = results
                   /\ gets' = gets + 1
    /\ UNCHANGED <<config, others, run, pc, result, cursor, page, total_downloaded,
                   media_items, next_cursor, successful, fs, media, reqs, resps,
                   clean, hist>>

ResponseKinds == {"success", "non_success", "network_error"}

\* `send().await?`, the status check and `bytes().await?` return.
Respond(i, kind) ==
    /\ pc = "download"
    /\ i \in 1..Len(dl)
    /\ dl[i] = "sent"
    /\ IF kind = "success"
       THEN /\ dl' = [dl EXCEPT ![i] = "create"]
            /\ results' = results
       ELSE /\ dl' = [dl EXCEPT ![i] = "done"]
            /\ results' = [results EXCEPT ![i] = "Err"]
    /\ UNCHANGED <<config, others, run, pc, result, cursor, page, total_downloaded,
                   media_items, next_cursor, started, successful, fs, media,
                   reqs, resps, gets, clean, hist>>

\* `fs::File::create(&filepath).await?`: creates the file or truncates the
\* one that is there; an error returns Err and touches nothing.
CreateFile(i, ok) ==
    /\ pc = "download"
    /\ i \in 1..Len(dl)
    /\ dl[i] = "create"
    /\ IF ok
       THEN /\ fs' = WriteTo(fs, PathAt(i), <<>>)
            /\ dl' = [dl EXCEPT ![i] = "write"]
            /\ results' = results
       ELSE /\ fs' = fs
            /\ dl' = [dl EXCEPT ![i] = "done"]
            /\ results' = [results EXCEPT ![i] = "Err"]
    /\ UNCHANGED <<config, others, run, pc, result, cursor, page, total_downloaded,
                   media_items, next_cursor, started, successful, media, reqs,
                   resps, gets, clean, hist>>

\* `file.write_all(&bytes).await?`: n bytes reach the file; fewer than all
\* of them is an error.
WriteFile(i) ==
    /\ pc = "download"
    /\ i \in 1..Len(dl)
    /\ dl[i] = "write"
    /\ \E n \in 0..Len(BodyAt(i)) :
        /\ fs' = WriteTo(fs, PathAt(i),
                         Overlay(fs[PathAt(i)], SubSeq(BodyAt(i), 1, n)))
        /\ IF n = Len(BodyAt(i))
           THEN /\ results' = [results EXCEPT ![i] = "Ok"]
                /\ fetched' = fetched \cup {media_items[i]}
           ELSE /\ results' = [results EXCEPT ![i] = "Err"]
                /\ fetched' = fetched
    /\ dl' = [dl EXCEPT ![i] = "done"]
    /\ UNCHANGED <<config, others, run, pc, result, cursor, page, total_downloaded,
                   media_items, next_cursor, started, successful, media, reqs,
                   resps, gets, clean, fs_prev, clean_prev, result_prev>>

\* The stage ends as soon as every download has been dispatched.
AllReturned_dispatched == TRUE

\* Every download_media future of the page has returned.
AllReturned == \A i \in 1..Len(dl) : dl[i] = "done"

\* `.collect().await` has every result: the count, the total, and the
\* cursor match that continues or ends the loop.
Collect ==
    /\ pc = "download"
    /\ started = Len(media_items)
    /\ AllReturned
    /\ successful' = Successful(results)
    /\ total_downloaded' = total_downloaded + successful'
    /\ clean' = (clean /\ \A i \in 1..Len(results) : results[i] = "Ok")
    /\ IF CursorBreak(next_cursor)
       THEN pc' = "done" /\ result' = "Ok" /\ cursor' = cursor
       ELSE pc' = "fetch" /\ result' = result /\ cursor' = CursorAfter(next_cursor)
    /\ UNCHANGED <<config, others, run, page, media_items, next_cursor, started, dl,
                   results, fs, media, reqs, resps, gets, hist>>

\* The program is run again on the same configuration, remote dataset,
\* save directory and database.
Rerun ==
    /\ pc = "done"
    /\ run < 2
    /\ run' = run + 1
    /\ pc' = "fetch"
    /\ result' = "none"
    /\ cursor' = None
    /\ page' = 0
    /\ total_downloaded' = 0
    /\ media_items' = <<>>
    /\ next_cursor' = None
    /\ started' = 0
    /\ dl' = <<>>
    /\ results' = <<>>
    /\ successful' = 0
    /\ reqs' = <<>>
    /\ resps' = <<>>
    /\ gets' = 0
    /\ clean' = TRUE
    /\ fs_prev' = fs
    /\ clean_prev' = clean
    /\ result_prev' = result
    /\ UNCHANGED <<config, others, fs, media, fetched>>

Execute ==
    \/ \E outcome \in FetchOutcomes : FetchPage(outcome)
    \/ StartDownload
    \/ \E i \in 1..MaxItems, kind \in ResponseKinds : Respond(i, kind)
    \/ \E i \in 1..MaxItems, ok \in BOOLEAN : CreateFile(i, ok)
    \/ \E i \in 1..MaxItems : WriteFile(i)
    \/ Collect

Next == Execute

Spec == Init /\ [][Next]_vars

\* The pipeline run twice.
NextRuns == Execute \/ Rerun

SpecRuns == Init /\ [][NextRuns]_vars


\* Every page fetch and every download step that can return does return, and
\* the executor keeps polling the futures that are ready: the run takes a
\* step as long as one is possible.
Fairness == WF_vars(Execute)

LiveSpec == Spec /\ Fairness

\* -------------------------------------------------------------- verify_file
\* The variables of Task::execute, which the store's functions do not touch.
pipeVars == <<remote, concurrent_downloads, local_tz, run, pc, result, cursor,
              page, total_downloaded, media_items, next_cursor, started, dl,
              results, successful, reqs, resps, gets, fetched, clean,
              fs_prev, clean_prev, result_prev>>

PipelineIdle ==
    /\ remote = <<>>
    /\ concurrent_downloads = 1
    /\ local_tz = 0
    /\ TaskStart

\* The arguments the store's functions are called with.
TweetIds  == {"t1", "t2"}
Urls      == {<<"u">>, <<"w">>}
FileNames == {<<"f">>, <<"g">>}
Contents  == {<<"a">>, <<"b">>}
Hashes    == {calculate_hash(c) : c \in Contents}
OptionOf(S) == {None} \cup {Some(x) : x \in S}

\* base_dir.join(filename)
StorePath(name) == SavePath \o <<"/">> \o name
StorePaths == {StorePath(name) : name \in FileNames}

\* The store and filesystem states verify_file is called in: every media
\* table of at most one row per url under the tweet t1, and every set of
\* files under the base directory.
MediaRows ==
    [tweet_id : {"t1"}, media_url : Urls,
     filename : OptionOf(FileNames), file_hash : OptionOf(Hashes)]
MediaTables ==
    {<<>>} \cup {<<r>> : r \in MediaRows}
           \cup {<<r[1], r[2]>> : r \in {x \in MediaRows \X MediaRows :
                                            x[1].media_url # x[2].media_url}}
FileStates == UNION {[P -> Contents] : P \in SUBSET StorePaths}
TweetT1 == [tweet_id |-> "t1", screen_name |-> "a", tweet_time |-> 1,
            full_text |-> None]

InitVerify ==
    /\ PipelineIdle
    /\ media \in MediaTables
    /\ tweets = <<TweetT1>>
    /\ fs \in FileStates
    /\ VerifyIdle
    /\ StoreHistIdle
    /\ CallsIdle
    /\ MainIdle
    /\ NamesIdle
    /\ WorkersIdle

VerifyUnchanged ==
    UNCHANGED <<pipeVars, media, tweets, storeHist, mainVars, nameVars, workerVars,
                callVars>>

\* verify_file, to the match on the record's columns. The query succeeds.
VerifyCall(media_url) ==
    /\ vpc = "idle"
    /\ vurl' = Some(media_url)
    /\ LET record == get_media_by_url(media, media_url)
       IN  /\ vrec' = record
           /\ IF record = None
              THEN vpc' = "done" /\ vresult' = "false"
              ELSE IF record[1].filename = None \/ record[1].file_hash = None
              THEN vpc' = "done" /\ vresult' = "false"
              ELSE vpc' = "exists" /\ vresult' = "none"
    /\ UNCHANGED fs
    /\ VerifyUnchanged

\* if !filepath.exists() { return Ok(false) }
VerifyExists ==
    /\ vpc = "exists"
    /\ IF FileExists(fs, StorePath(vrec[1].filename[1]))
       THEN vpc' = "read" /\ vresult' = "none"
       ELSE vpc' = "done" /\ vresult' = "false"
    /\ UNCHANGED <<fs, vurl, vrec>>
    /\ VerifyUnchanged

\* fs::read(&filepath).await?, calculate_hash and the comparison.
VerifyRead ==
    /\ vpc = "read"
    /\ vpc' = "done"
    /\ LET path == StorePath(vrec[1].filename[1])
       IN  IF path \notin DOMAIN fs
           THEN vresult' = "Err"
           ELSE IF HashEqual(calculate_hash(fs[path]), vrec[1].file_hash[1])
           THEN vresult' = "true"
           ELSE vresult' = "false"
    /\ UNCHANGED <<fs, vurl, vrec>>
    /\ VerifyUnchanged

\* Another process removes a file, or writes one, while the call runs.
RemoveFile(path) ==
    /\ vpc # "done"
    /\ path \in DOMAIN fs
    /\ fs' = [q \in DOMAIN fs \ {path} |-> fs[q]]
    /\ UNCHANGED verifyVars
    /\ VerifyUnchanged

OverwriteFile(path, content) ==
    /\ vpc # "done"
    /\ fs' = WriteTo(fs, path, content)
    /\ fs' # fs
    /\ UNCHANGED verifyVars
    /\ VerifyUnchanged

NextVerify ==
    \/ \E media_url \in Urls : VerifyCall(media_url)
    \/ VerifyExists
    \/ VerifyRead
    \/ \E path \in StorePaths : RemoveFile(path)
    \/ \E path \in StorePaths, content \in Contents : OverwriteFile(path, content)

SpecVerify == InitVerify /\ [][NextVerify]_vars

\* ---------------------------------------------------------- store callers
\* The store's functions, called in any order with any arguments, and media
\* files written under the base directory by downloads.
ScreenNames == {"a", "b"}
\* tweet_time as the caller formats it, one per screen name.
TweetTime(screen_name) == IF screen_name = "a" THEN 1 ELSE 2
Texts == OptionOf({<<"x">>, <<"y">>})

InitStore ==
    /\ PipelineIdle
    /\ fs = NoFiles
    /\ media = NoRows
    /\ tweets = NoRows
    /\ VerifyIdle
    /\ StoreHistIdle
    /\ CallsIdle
    /\ MainIdle
    /\ NamesIdle
    /\ WorkersIdle

StoreUnchanged ==
    UNCHANGED <<pipeVars, verifyVars, mainVars, nameVars, workerVars, callVars>>

UpsertTweet(tweet_id, screen_name, full_text) ==
    /\ tweets' = upsert_tweet(tweets, tweet_id, screen_name,
                              TweetTime(screen_name), full_text)
    /\ seen' = [id \in DOMAIN seen \cup {tweet_id} |->
                  IF id # tweet_id THEN seen[id]
                  ELSE IF id \in DOMAIN seen
                  THEN [seen[id] EXCEPT !.last_screen = screen_name,
                                        !.full_text = full_text]
                  ELSE [screen_name |-> screen_name,
                        tweet_time |-> TweetTime(screen_name),
                        last_screen |-> screen_name,
                        full_text |-> full_text]]
    /\ UNCHANGED <<media, fs, hashed, asked>>
    /\ StoreUnchanged

UpsertMedia(tweet_id, media_url, fname) ==
    /\ media' = upsert_media(media, tweets, tweet_id, media_url, fname)
    /\ asked' = [u \in DOMAIN asked \cup {media_url} |->
                   IF u = media_url
                   THEN upsert_media_result(media, tweets, tweet_id, media_url)
                   ELSE asked[u]]
    /\ UNCHANGED <<tweets, fs, hashed, seen>>
    /\ StoreUnchanged

\* The hash passed is that of the bytes now in the file the url's row names.
HashOfRowFile(media_url, file_hash) ==
    LET record == get_media_by_url(media, media_url)
    IN  /\ record # None
        /\ record[1].filename # None
        /\ StorePath(record[1].filename[1]) \in DOMAIN fs
        /\ calculate_hash(fs[StorePath(record[1].filename[1])]) = file_hash

\* The names of the files whose bytes now have this hash.
FilesHashingTo(file_hash) ==
    {name \in FileNames : /\ StorePath(name) \in DOMAIN fs
                          /\ calculate_hash(fs[StorePath(name)]) = file_hash}

\* update_hash; hashed records, for a hash computed from the row's file, the
\* files that had that hash then.
UpdateHash(media_url, file_hash) ==
    /\ media' = update_hash(media, media_url, file_hash)
    /\ hashed' = IF ~HasMedia(media, media_url) THEN hashed
                 ELSE [u \in DOMAIN hashed \cup {media_url} |->
                         IF u # media_url THEN hashed[u]
                         ELSE IF HashOfRowFile(media_url, file_hash)
                         THEN Some(FilesHashingTo(file_hash))
                         ELSE None]
    /\ UNCHANGED <<tweets, fs, seen, asked>>
    /\ StoreUnchanged

\* A download writes a media file.
StoreFile(name, content) ==
    /\ fs' = WriteTo(fs, StorePath(name), content)
    /\ UNCHANGED <<tweets, media, storeHist>>
    /\ StoreUnchanged

\* Calls of upsert_tweet alone, with every argument.
NextTweets ==
    \E tweet_id \in TweetIds, screen_name \in ScreenNames, full_text \in Texts :
        UpsertTweet(tweet_id, screen_name, full_text)

SpecTweets == InitStore /\ [][NextTweets]_vars

\* Calls of all three functions and downloads; the tweets are upserted with
\* one screen name and no text.
NextStore ==
    \/ \E tweet_id \in TweetIds : UpsertTweet(tweet_id, "a", None)
    \/ \E tweet_id \in TweetIds, media_url \in Urls, fname \in OptionOf(FileNames) :
          UpsertMedia(tweet_id, media_url, fname)
    \/ \E media_url \in Urls, file_hash \in Hashes : UpdateHash(media_url, file_hash)
    \/ \E name \in FileNames, content \in Contents : StoreFile(name, content)

SpecStore == InitStore /\ [][NextStore]_vars

\* --------------------------------------------------------------------- main
\* main's loop over config.tasks: Task::new(..).await? and then
\* task.execute().await? for each task in turn. fs is the save directory of
\* the task at hand, remote the timeline of its account.
InitMain ==
    /\ remote \in Datasets
    /\ concurrent_downloads \in 1..MaxConcurrent
    /\ local_tz \in LocalOffsets
    /\ TaskStart
    /\ fs = NoFiles
    /\ media = NoRows
    /\ tweets = NoRows
    /\ VerifyIdle
    /\ StoreHistIdle
    /\ CallsIdle
    /\ account = 1
    /\ main_pc = "new"
    /\ main_result = "none"
    /\ resolved = {}
    /\ NamesIdle
    /\ WorkersIdle

MainUnchanged ==
    UNCHANGED <<tweets, media, verifyVars, storeHist, nameVars, workerVars,
                callVars>>

NewOutcomes == {"task", "error"}

\* Task::new: build_client, fetch_user_info and create_dir_all, each with ?.
NewTask(outcome) ==
    /\ main_pc = "new"
    /\ resolved' = resolved \cup {account}
    /\ IF outcome = "task"
       THEN main_pc' = "execute" /\ main_result' = main_result
       ELSE main_pc' = "exit" /\ main_result' = "Err"
    /\ UNCHANGED <<pipeVars, fs, account>>
    /\ MainUnchanged

\* A step of task.execute().
ExecuteTask ==
    /\ main_pc = "execute"
    /\ Execute

\* task.execute().await? has returned: an error leaves main, Ok goes on to
\* the next task, or to Ok(()) after the last.
TaskReturned ==
    /\ main_pc = "execute"
    /\ pc = "done"
    /\ IF result = "Err"
       THEN /\ main_pc' = "exit"
            /\ main_result' = "Err"
            /\ UNCHANGED <<pipeVars, fs, account>>
       ELSE IF account = MaxAccounts
       THEN /\ main_pc' = "exit"
            /\ main_result' = "Ok"
            /\ UNCHANGED <<pipeVars, fs, account>>
       ELSE /\ main_pc' = "new"
            /\ main_result' = main_result
            /\ account' = account + 1
            /\ remote' \in Datasets
            /\ fs' = NoFiles
            /\ pc' = "fetch"
            /\ result' = "none"
            /\ cursor' = None
            /\ page' = 0
            /\ total_downloaded' = 0
            /\ media_items' = <<>>
            /\ next_cursor' = None
            /\ started' = 0
            /\ dl' = <<>>
            /\ results' = <<>>
            /\ successful' = 0
            /\ reqs' = <<>>
            /\ resps' = <<>>
            /\ gets' = 0
            /\ fetched' = {}
            /\ clean' = TRUE
            /\ UNCHANGED <<concurrent_downloads, local_tz, run, fs_prev,
                           clean_prev, result_prev>>
    /\ UNCHANGED resolved
    /\ MainUnchanged

NextMain ==
    \/ \E outcome \in NewOutcomes : NewTask(outcome)
    \/ ExecuteTask
    \/ TaskReturned

SpecMain == InitMain /\ [][NextMain]_vars

\* ------------------------------------------------------- a silent remote
\* The remote never answers a media request. build_client sets no timeout
\* on the client, so self.client.get(..).send().await never returns and the
\* download_media call stays where it is.
NoResponse(i) ==
    /\ pc = "download"
    /\ i \in 1..Len(dl)
    /\ dl[i] = "sent"
    /\ dl' = [dl EXCEPT ![i] = "hung"]
    /\ UNCHANGED <<config, others, run, pc, result, cursor, page, total_downloaded,
                   media_items, next_cursor, started, results, successful, fs,
                   media, reqs, resps, gets, clean, hist>>

NextSilent ==
    \/ Execute
    \/ \E i \in 1..MaxItems : NoResponse(i)

\* Every step that can be taken is taken in the end.
SpecSilent == Init /\ [][NextSilent]_vars /\ WF_vars(NextSilent)

\* ---------------------------------------------------------------- filenames
\* Two computations of download_media's filename, for any two references
\* and under any two local time zones: calls of one run, or of two runs of
\* the program on machines or days whose Local offset differs.
RefUrls == {<<"p", "/", "a", ".", "j">>, <<"q", "/", "b">>}
RefTimes == {Timestamp(22, 0), Timestamp(23, 0), Timestamp(23, 9)}
Refs == [url : RefUrls, media_type : {"Image", "Video"}, timestamp : RefTimes]
NamedRefs == [item : Refs, tz : LocalOffsets]

InitNames ==
    /\ PipelineIdle
    /\ fs = NoFiles
    /\ media = NoRows
    /\ tweets = NoRows
    /\ VerifyIdle
    /\ StoreHistIdle
    /\ CallsIdle
    /\ MainIdle
    /\ ref_a \in NamedRefs
    /\ ref_b \in NamedRefs
    /\ name_a = None
    /\ name_b = None
    /\ WorkersIdle

NamesUnchanged ==
    UNCHANGED <<pipeVars, fs, media, tweets, verifyVars, storeHist, mainVars,
                workerVars, callVars, ref_a, ref_b>>

\* date_str as Task::execute computes it and filename as download_media does.
NameOf(ref) == filename(ref.item, date_str(ref.item, ref.tz))

NameA ==
    /\ name_a = None
    /\ name_a' = Some(NameOf(ref_a))
    /\ UNCHANGED name_b
    /\ NamesUnchanged

NameB ==
    /\ name_b = None
    /\ name_b' = Some(NameOf(ref_b))
    /\ UNCHANGED name_a
    /\ NamesUnchanged

NextNames == NameA \/ NameB

SpecNames == InitNames /\ [][NextNames]_vars

\* -------------------------------------------------------- concurrent callers
\* Two workers, each making two store calls in its own order, on one pool.
\* Each of upsert_tweet, upsert_media and update_hash executes one SQL
\* statement, which SQLite runs as a whole: a call is one step. Every call
\* succeeds in reaching the database.
TweetCalls ==
    [op : {"tweet"}, tweet_id : {"t1"}, screen_name : ScreenNames, full_text : {None}]
MediaCalls ==
    [op : {"media"}, tweet_id : {"t1"}, media_url : Urls,
     filename : {Some(name) : name \in FileNames}]
HashCalls == [op : {"hash"}, media_url : Urls, file_hash : Hashes]
StoreCalls == TweetCalls \cup MediaCalls \cup HashCalls
Programs == {<<c[1], c[2]>> : c \in StoreCalls \X StoreCalls}

\* The tables after one call.
ApplyCall(st, c) ==
    CASE c.op = "tweet" ->
           [st EXCEPT !.tweets = upsert_tweet(st.tweets, c.tweet_id, c.screen_name,
                                              TweetTime(c.screen_name), c.full_text)]
      [] c.op = "media" ->
           [st EXCEPT !.media = upsert_media(st.media, st.tweets, c.tweet_id,
                                             c.media_url, c.filename)]
      [] c.op = "hash" ->
           [st EXCEPT !.media = update_hash(st.media, c.media_url, c.file_hash)]

InitWorkers ==
    /\ PipelineIdle
    /\ fs = NoFiles
    /\ media = NoRows
    /\ tweets = NoRows
    /\ VerifyIdle
    /\ StoreHistIdle
    /\ CallsIdle
    /\ MainIdle
    /\ NamesIdle
    /\ progs \in Programs \X Programs
    /\ wpos = [w \in DOMAIN progs |-> 0]

\* Worker w makes its next call.
WorkerCall(w) ==
    /\ wpos[w] < Len(progs[w])
    /\ LET st == ApplyCall([tweets |-> tweets, media |-> media],
                           progs[w][wpos[w] + 1])
       IN  tweets' = st.tweets /\ media' = st.media
    /\ wpos' = [wpos EXCEPT ![w] = wpos[w] + 1]
    /\ UNCHANGED <<pipeVars, fs, verifyVars, storeHist, mainVars, nameVars, progs,
                   callVars>>

NextWorkers == \E w \in DOMAIN progs : WorkerCall(w)

SpecWorkers == InitWorkers /\ [][NextWorkers]_vars

\* -------------------------------------------------------------- update_hash
\* Two calls of update_hash, with any arguments, on any media table.
InitHash ==
    /\ PipelineIdle
    /\ fs = NoFiles
    /\ media \in MediaTables
    /\ tweets = <<TweetT1>>
    /\ VerifyIdle
    /\ StoreHistIdle
    /\ CallsIdle
    /\ MainIdle
    /\ NamesIdle
    /\ WorkersIdle

RecordHash(media_url, file_hash) ==
    /\ Len(hash_call) < 2
    /\ media' = update_hash(media, media_url, file_hash)
    /\ tweets' = tweets
    /\ hash_call' = Append(hash_call,
                           [media_url |-> media_url, file_hash |-> file_hash,
                            before |-> media, after |-> media',
                            tweets_before |-> tweets, tweets_after |-> tweets',
                            result |-> update_hash_result(media, media_url)])
    /\ UNCHANGED <<pipeVars, fs, verifyVars, storeHist, mainVars, nameVars,
                   workerVars, variants, picked>>

\* The urls update_hash is called with: those of the rows, and one that no
\* table has a row for.
HashUrls == Urls \cup {<<"z">>}

NextHash ==
    \E media_url \in HashUrls, file_hash \in Hashes : RecordHash(media_url, file_hash)

SpecHash == InitHash /\ [][NextHash]_vars

\* ------------------------------------------------------- variant selection
\* extract_media_from_item on one media entry of type "video" or
\* "animated_gif": the entry's /video_info/variants array in, the MediaItems
\* pushed for it out. A variant is a JSON object whose content_type, bitrate
\* and url fields may each be missing (None).
Mp4Type  == <<"v", "i", "d", "e", "o", "/", "m", "p", "4">>
WebmType == <<"v", "i", "d", "e", "o", "/", "w", "e", "b", "m">>
ContentTypes == OptionOf({Mp4Type, WebmType})
Bitrates == OptionOf({800, 2000, 5000})

\* The url of the rendition of a type and bitrate: one per rendition.
VariantUrl(content_type, bitrate) == <<content_type, bitrate>>

VariantPool ==
    {[content_type |-> ct, bitrate |-> br, url |-> u] :
        ct \in ContentTypes, br \in Bitrates, u \in {None}} \cup
    {[content_type |-> ct, bitrate |-> br, url |-> Some(VariantUrl(ct, br))] :
        ct \in ContentTypes, br \in Bitrates}

RECURSIVE ListsOver(_, _)
ListsOver(S, n) ==
    IF n = 0 THEN {<<>>}
    ELSE LET shorter == ListsOver(S, n - 1)
         IN  shorter \cup {Append(l, x) : l \in {k \in shorter : Len(k) = n - 1}, x \in S}

\* str::contains
contains(s, sub) ==
    \E i \in 1..(Len(s) - Len(sub) + 1) : SubSeq(s, i, i + Len(sub) - 1) = sub

\* Every variant that names a content type passes the filter.
IsMp4_any(v) == v.content_type # None

\* The filter: content_type is a string that contains "mp4".
IsMp4(v) == v.content_type # None /\ contains(v.content_type[1], <<"m", "p", "4">>)

\* The key: bitrate as u64, 0 when it is missing.
BitrateKey(v) == IF v.bitrate = None THEN 0 ELSE v.bitrate[1]

\* Iterator::max_by_key with the bitrate closure: None for an empty
\* iterator, the last of the elements with the maximal key otherwise.
max_by_key(seq) ==
    IF seq = <<>> THEN None
    ELSE LET top  == Max({BitrateKey(seq[i]) : i \in 1..Len(seq)})
             last == Max({i \in 1..Len(seq) : BitrateKey(seq[i]) = top})
         IN  Some(seq[last])

\* The "video" | "animated_gif" arm: what is pushed to results.
extract_video(vs) ==
    LET best_video == max_by_key(SelectSeq(vs, IsMp4))
    IN  IF best_video # None /\ best_video[1].url # None
        THEN <<[url |-> best_video[1].url[1], media_type |-> "Video"]>>
        ELSE <<>>

InitVariants ==
    /\ PipelineIdle
    /\ fs = NoFiles
    /\ media = NoRows
    /\ tweets = NoRows
    /\ VerifyIdle
    /\ StoreHistIdle
    /\ hash_call = None
    /\ variants \in ListsOver(VariantPool, MaxVariants)
    /\ picked = None
    /\ MainIdle
    /\ NamesIdle
    /\ WorkersIdle

Extract ==
    /\ picked = None
    /\ picked' = Some(extract_video(variants))
    /\ UNCHANGED <<pipeVars, fs, media, tweets, verifyVars, storeHist, mainVars,
                   nameVars, workerVars, hash_call, variants>>

NextVariants == Extract

SpecVariants == InitVariants /\ [][NextVariants]_vars

\* ------------------------------------------------------------------ claims
\* The responses of this run so far, and whether the last request was
\* answered.
LastAnswered == Len(resps) = Len(reqs)

\* The work a run has left: the page requests it may still make, and in a
\* download stage the steps its download_media calls have left, plus the
\* collect.
StepsLeft(position) ==
    CASE position = "todo"   -> 4
      [] position = "sent"   -> 3
      [] position = "create" -> 2
      [] position = "write"  -> 1
      [] OTHER               -> 0

RECURSIVE StageLeft(_)
StageLeft(i) == IF i = 0 THEN 1 ELSE StepsLeft(dl[i]) + StageLeft(i - 1)

WorkLeft ==
    (MaxPageCounter - page) * (4 * MaxItems + 2)
        + (IF pc = "download" THEN StageLeft(Len(dl)) ELSE 0)

\* C1: when every page fetch and every download eventually returns,
\* Task::execute eventually returns: it does not request pages forever. As
\* long as execute has not returned a step is possible (so under Fairness one
\* is taken), and every step leaves less work, which is never negative.
C1_Terminates ==
    /\ [](pc # "done" => ENABLED Execute)
    /\ [](WorkLeft >= 0)
    /\ [][WorkLeft' < WorkLeft]_vars

\* C1 as a liveness property of LiveSpec.
C1_EventuallyReturns == <>(pc = "done")

C1_Witness ==
    /\ pc = "done"
    /\ result = "Ok"
    /\ Len(reqs) = MaxPages
    /\ total_downloaded > 0

\* C2: no page is requested after a page whose list is empty or whose cursor
\* is absent, execute returns Ok there, and it returns after an answered
\* request only there (after any other page it goes on to the next request).
C2_StopsAtFirstTerminalPage ==
    /\ \A k \in 1..Len(resps) : IsTerminal(resps[k]) => Len(reqs) = k
    /\ (pc = "done" /\ LastAnswered) =>
            (result = "Ok" /\ IsTerminal(resps[Len(resps)]))
    /\ (Len(resps) > 0 /\ IsTerminal(resps[Len(resps)])) =>
            (pc = "done" => result = "Ok")

C2_Witness ==
    /\ pc = "done"
    /\ result = "Ok"
    /\ Len(reqs) = 1
    /\ Len(remote) = 2
    /\ resps[1].items # <<>>
    /\ resps[1].next = None

\* C3: the first page request carries no cursor, and request k+1 carries the
\* cursor that response k returned.
C3_CursorChain ==
    /\ Len(reqs) >= 1 => reqs[1] = None
    /\ \A k \in 1..Len(reqs) - 1 : reqs[k + 1] = resps[k].next

C3_Witness ==
    /\ Len(reqs) = 2
    /\ reqs[2] = Some(1)
    /\ LastAnswered

\* C4: at most concurrent_downloads download_media calls are in flight.
C4_AtMostN == Cardinality(InFlight) <= concurrent_downloads

C4_Witness ==
    /\ Cardinality(InFlight) = concurrent_downloads
    /\ started < Len(media_items)

\* C5: when a page's download stage ends, every reference of the page has a
\* result, the success count is the number of Ok results, execute has not
\* failed, and it goes on to request the next page when the cursor is present;
\* execute only ever fails on a page request.
C5_Bulkhead ==
    /\ [][(pc = "download" /\ pc' # "download") =>
            /\ \A i \in 1..Len(media_items) : results[i] \in {"Ok", "Err"}
            /\ successful' = Cardinality({i \in 1..Len(results) : results[i] = "Ok"})
            /\ total_downloaded' = total_downloaded + successful'
            /\ result' # "Err"
            /\ (next_cursor # None => pc' = "fetch")]_vars
    /\ [](result = "Err" => ~LastAnswered)

C5_Witness ==
    /\ pc = "download"
    /\ Len(reqs) = 2
    /\ ~clean
    /\ total_downloaded = 1
    /\ successful = 1

\* C6: when the file exists as download_media checks it, the call sends no
\* GET, leaves the files as they are and returns Ok.
C6_SkipRule ==
    [][(pc = "download" /\ started' = started + 1
            /\ PathAt(started + 1) \in DOMAIN fs) =>
          /\ gets' = gets
          /\ fs' = fs
          /\ dl'[started + 1] = "done"
          /\ results'[started + 1] = "Ok"]_vars

C6_Witness ==
    /\ pc = "download"
    /\ \E i \in 1..Len(results) :
        /\ results[i] = "Ok"
        /\ media_items[i] \notin fetched
        /\ PathAt(i) \in DOMAIN fs


\* C7 as stated: when both runs over the same pages and the same files have
\* returned Ok, the files are those the first run left and the second run
\* sent no media GET.
C7_AsStated ==
    (run = 2 /\ pc = "done" /\ result = "Ok" /\ result_prev = "Ok") =>
        (fs = fs_prev /\ gets = 0)

\* C7, amended: when the first run returned Ok and every download of it
\* returned success, the second run sends no media GET and the files stay
\* those the first run left.
C7_Idempotent ==
    (run = 2 /\ result_prev = "Ok" /\ clean_prev) => (fs = fs_prev /\ gets = 0)

C7_Witness ==
    /\ run = 2
    /\ result_prev = "Ok"
    /\ clean_prev
    /\ pc = "done"
    /\ result = "Ok"
    /\ Len(reqs) = 2
    /\ total_downloaded >= 2
    /\ Cardinality(DOMAIN fs) >= 2

\* C8 as stated: File::create runs on a destination path only when no file
\* is there, so no file is created or written twice.
C8_CreatedAtMostOnce ==
    [][\A i \in 1..Len(dl) :
          (dl[i] = "create" /\ dl'[i] = "write") => PathAt(i) \notin DOMAIN fs]_vars

\* C9 as stated: every reference whose fetch succeeded and whose download
\* has returned Ok has a media row with its filename and the hash of the
\* bytes written.
C9_StoreUpdated ==
    \A id \in fetched :
        LET item == ItemPool[id]
            row  == get_media_by_url(media, item.url)
        IN  /\ row # None
            /\ row[1].filename = Some(filename(item, date_str(item, local_tz)))
            /\ row[1].file_hash
                   = Some(calculate_hash(RemoteBody(download_url(item))))

\* C10 as stated: verify_file is false for a URL that was never downloaded,
\* true after the download while the file holds the bytes written, and false
\* once the file holds other bytes.
C10_VerifyTracksDownload ==
    \A id \in ItemIds :
        LET item == ItemPool[id]
            path == filepath(item, date_str(item, local_tz))
            body == RemoteBody(download_url(item))
            ok   == verify_file(media, fs, item.url, SavePath)
        IN  /\ id \notin fetched => ~ok
            /\ (id \in fetched /\ path \in DOMAIN fs /\ fs[path] = body) => ok
            /\ (id \in fetched /\ path \in DOMAIN fs /\ fs[path] # body) => ~ok

\* What C11 and C12 call the pieces: a media row for the url with a
\* filename and a hash, whose file exists and now hashes to that hash.
PiecesPresent(media_url) ==
    \E i \in 1..Len(media) :
        /\ media[i].media_url = media_url
        /\ media[i].filename # None
        /\ media[i].file_hash # None
        /\ StorePath(media[i].filename[1]) \in DOMAIN fs
        /\ calculate_hash(fs[StorePath(media[i].filename[1])])
               = media[i].file_hash[1]

\* C11: when verify_file returns, it has returned true exactly when a media
\* row exists for the url, its filename and hash are both present, the file
\* of that name exists under the base directory and the hash of its bytes
\* equals the stored hash.
C11_VerifyIff ==
    vpc = "done" => ((vresult = "true") <=> PiecesPresent(vurl[1]))

C11_Witness ==
    /\ vpc = "done"
    /\ vresult = "true"
    /\ PiecesPresent(vurl[1])
    /\ Len(media) = 2

\* C12 as stated: whenever a piece is missing when verify_file returns (no
\* record, no filename, no hash, no file, other bytes), it has returned
\* false, never an error.
C12_FalseNeverError ==
    (vpc = "done" /\ ~PiecesPresent(vurl[1])) => vresult = "false"

\* C13: a tweet_id never upserted has no row; one that was has exactly one
\* row, whose text is that of the last call and whose screen name and time
\* are those of the first call.
C13_TweetUpsert ==
    \A id \in TweetIds :
        LET rows == {i \in 1..Len(tweets) : tweets[i].tweet_id = id}
        IN  IF id \notin DOMAIN seen THEN rows = {}
            ELSE /\ Cardinality(rows) = 1
                 /\ \A i \in rows :
                       /\ tweets[i].full_text = seen[id].full_text
                       /\ tweets[i].screen_name = seen[id].screen_name
                       /\ tweets[i].tweet_time = seen[id].tweet_time

C13_Witness ==
    /\ Len(tweets) = 2
    /\ \E i \in 1..Len(tweets) :
          /\ seen[tweets[i].tweet_id].last_screen # tweets[i].screen_name
          /\ tweets[i].full_text # None

OneRowPerUrl ==
    \A u \in Urls : Cardinality({i \in 1..Len(media) : media[i].media_url = u}) <= 1

NewMediaRow(tweet_id, media_url, fname) ==
    [tweet_id |-> tweet_id, media_url |-> media_url, filename |-> fname,
     file_hash |-> None]

\* The step overwrites the filename of the url's row and nothing else.
OnlyFilenameOverwritten(media_url, fname) ==
    /\ Len(media') = Len(media)
    /\ \A i \in 1..Len(media) :
          media'[i] = IF media[i].media_url = media_url
                      THEN [media[i] EXCEPT !.filename = fname]
                      ELSE media[i]

\* C14 as stated: upsert_media appends a row with a null hash when the url
\* is absent, and otherwise overwrites that row's filename only; every other
\* row is unchanged and no url ever has two rows.
C14_AsStated ==
    /\ []OneRowPerUrl
    /\ [][\A tweet_id \in TweetIds, media_url \in Urls, fname \in OptionOf(FileNames) :
            UpsertMedia(tweet_id, media_url, fname) =>
                IF HasMedia(media, media_url)
                THEN OnlyFilenameOverwritten(media_url, fname)
                ELSE media' = Append(media, NewMediaRow(tweet_id, media_url, fname))]_vars

\* C14, amended: upsert_media appends a row with a null hash when the url is
\* absent and the tweets table holds the tweet_id; when the url is absent
\* and the tweets table does not hold the tweet_id it returns an error and
\* changes nothing; when the url is present it overwrites that row's
\* filename only. Every other row is unchanged and no url ever has two rows.
C14_MediaUpsert ==
    /\ []OneRowPerUrl
    /\ [][\A tweet_id \in TweetIds, media_url \in Urls, fname \in OptionOf(FileNames) :
            UpsertMedia(tweet_id, media_url, fname) =>
                IF HasMedia(media, media_url)
                THEN OnlyFilenameOverwritten(media_url, fname)
                ELSE IF HasTweet(tweets, tweet_id)
                THEN media' = Append(media, NewMediaRow(tweet_id, media_url, fname))
                ELSE media' = media /\ asked'[media_url] = "Err"]_vars

\* One url's insert was refused; the other url's row has had its filename
\* overwritten after its hash was recorded, and has kept the hash.
C14_Witness ==
    \E u \in DOMAIN asked, w \in DOMAIN asked :
        /\ asked[u] = "Err"
        /\ asked[w] = "Ok"
        /\ w \in DOMAIN hashed
        /\ hashed[w] # None
        /\ \E i \in 1..Len(media) :
              /\ media[i].media_url = w
              /\ media[i].file_hash # None
              /\ media[i].filename # None
              /\ media[i].filename[1] \notin hashed[w][1]
\* C15 as stated: a media row with a hash that was computed from its file
\* names a file whose bytes had exactly that hash when the hash was computed,
\* and upsert_media never sets or changes a hash.
C15_HashNamesFile ==
    /\ [](\A i \in 1..Len(media) :
            (/\ media[i].file_hash # None
             /\ media[i].media_url \in DOMAIN hashed
             /\ hashed[media[i].media_url] # None)
            => /\ media[i].filename # None
               /\ media[i].filename[1] \in hashed[media[i].media_url][1])
    /\ [][\A tweet_id \in TweetIds, media_url \in Urls, fname \in OptionOf(FileNames) :
            UpsertMedia(tweet_id, media_url, fname) =>
                /\ \A i \in 1..Len(media) : media'[i].file_hash = media[i].file_hash
                /\ \A i \in Len(media) + 1..Len(media') : media'[i].file_hash = None]_vars
\* C16 as stated: an error of Task::new or of the page fetch for one task
\* ends that task only, so when main returns Task::new has been called for
\* every task of the configuration.
C16_LaterAccountsProcessed ==
    main_pc = "exit" => resolved = 1..MaxAccounts
\* C17 as stated: a download whose remote fetch never responds does not
\* stall its page: the page's download stage always comes to an end.
C17_NoStall == (pc = "download") ~> (pc # "download")
\* C18: a page request is sent only when every download of the page before
\* it has been dispatched and has returned, and no download is in flight
\* outside the download stage of its own page.
C18_PageBarrier ==
    /\ [](InFlight # {} => pc = "download")
    /\ [][Len(reqs') = Len(reqs) + 1 =>
            /\ started = Len(media_items)
            /\ \A i \in 1..Len(dl) : dl[i] = "done" /\ results[i] # "none"]_vars

C18_Witness ==
    /\ Len(reqs) = 2
    /\ Len(resps[1].items) = 2
    /\ pc = "download"
    /\ Cardinality(InFlight) = 2
\* The two references have the same posting instant, source URL and kind.
SameReference ==
    /\ ref_a.item.timestamp.utc = ref_b.item.timestamp.utc
    /\ ref_a.item.url = ref_b.item.url
    /\ ref_a.item.media_type = ref_b.item.media_type

\* C19 as stated: two filename computations for references with equal
\* posting time, source URL and kind yield the same filename.
C19_AsStated ==
    (name_a # None /\ name_b # None /\ SameReference) => name_a = name_b

\* C19, amended: two filename computations under the same local time zone
\* for references with equal posting time, source URL and kind yield the
\* same filename.
C19_SameName ==
    (name_a # None /\ name_b # None /\ SameReference /\ ref_a.tz = ref_b.tz)
        => name_a = name_b

\* The same instant late in the day, written with two different offsets,
\* named twice under one local time zone.
C19_Witness ==
    /\ name_a # None
    /\ name_b # None
    /\ SameReference
    /\ ref_a.tz = ref_b.tz
    /\ ref_a.item.timestamp.utc + ref_a.tz >= 24
    /\ ref_a.item.timestamp.off # ref_b.item.timestamp.off
    /\ name_a = name_b
\* The orders in which the calls of two workers can be made one at a time.
RECURSIVE Merges(_, _)
Merges(p, q) ==
    IF p = <<>> THEN {q}
    ELSE IF q = <<>> THEN {p}
    ELSE {<<Head(p)>> \o m : m \in Merges(Tail(p), q)}
         \cup {<<Head(q)>> \o m : m \in Merges(p, Tail(q))}

\* The tables after the calls of a sequence, made one after the other.
RECURSIVE ApplySeq(_, _)
ApplySeq(st, calls) ==
    IF calls = <<>> THEN st ELSE ApplySeq(ApplyCall(st, Head(calls)), Tail(calls))

SequentialResults ==
    {ApplySeq([tweets |-> NoRows, media |-> NoRows], m) :
        m \in Merges(progs[1], progs[2])}

OneRowPerTweet ==
    \A id \in TweetIds :
        Cardinality({i \in 1..Len(tweets) : tweets[i].tweet_id = id}) <= 1

AllCallsMade == \A w \in DOMAIN progs : wpos[w] = Len(progs[w])

C21_HashFrame ==
    \A k \in 1..Len(hash_call) :
        LET c == hash_call[k]
        IN  /\ c.result = "Ok"
            /\ c.tweets_after = c.tweets_before
            /\ Len(c.after) = Len(c.before)
            /\ \A i \in 1..Len(c.before) :
                  c.after[i] = IF c.before[i].media_url = c.media_url
                               THEN [c.before[i] EXCEPT !.file_hash = Some(c.file_hash)]
                               ELSE c.before[i]
            /\ (\A i \in 1..Len(c.before) : c.before[i].media_url # c.media_url)
                  => c.after = c.before

\* A call for a url without a row, then a call that replaces the hash of one
\* of two rows.
C21_Witness ==
    /\ Len(hash_call) = 2
    /\ Len(media) = 2
    /\ hash_call[1].media_url = <<"z">>
    /\ ~HasMedia(hash_call[1].before, <<"z">>)
    /\ hash_call[2].media_url = <<"w">>
    /\ \E i \in 1..2 :
          /\ hash_call[2].before[i].media_url = <<"w">>
          /\ hash_call[2].before[i].file_hash # None
          /\ hash_call[2].before[i].file_hash # Some(hash_call[2].file_hash)
          /\ hash_call[2].before[i].filename # None
\* The MP4-compatible renditions of the entry, by position.
Mp4Renditions ==
    {i \in 1..Len(variants) :
        /\ variants[i].content_type # None
        /\ contains(variants[i].content_type[1], <<"m", "p", "4">>)}

\* C22: at most one reference is extracted for a video entry; it is an
\* MP4-compatible rendition whose bitrate (0 when missing) no other
\* MP4-compatible rendition exceeds; without an MP4-compatible rendition
\* none is extracted; and one is extracted whenever MP4-compatible
\* renditions exist and all of them carry a url.
C22_VariantSelection ==
    picked # None =>
        LET pushed == picked[1]
        IN  /\ Len(pushed) <= 1
            /\ Mp4Renditions = {} => pushed = <<>>
            /\ pushed # <<>> =>
                  \E i \in Mp4Renditions :
                      /\ variants[i].url = Some(pushed[1].url)
                      /\ pushed[1].media_type = "Video"
                      /\ \A j \in Mp4Renditions :
                            BitrateKey(variants[j]) <= BitrateKey(variants[i])
            /\ (Mp4Renditions # {} /\ \A i \in Mp4Renditions : variants[i].url # None)
                  => pushed # <<>>

\* The example: [{mp4, 800}, {mp4, 2000}, {webm, 5000}] yields the 2000 mp4.
C22_Witness ==
    /\ variants = <<[content_type |-> Some(Mp4Type), bitrate |-> Some(800),
                     url |-> Some(VariantUrl(Some(Mp4Type), Some(800)))],
                    [content_type |-> Some(Mp4Type), bitrate |-> Some(2000),
                     url |-> Some(VariantUrl(Some(Mp4Type), Some(2000)))],
                    [content_type |-> Some(WebmType), bitrate |-> Some(5000),
                     url |-> Some(VariantUrl(Some(WebmType), Some(5000)))]>>
    /\ picked = Some(<<[url |-> VariantUrl(Some(Mp4Type), Some(2000)),
                        media_type |-> "Video"]>>)
\* The file at the path holds the whole response body of a reference that
\* is saved under that path.
HoldsCompleteBody(f, path) ==
    \E id \in ItemIds :
        /\ filepath(ItemPool[id], date_str(ItemPool[id], local_tz)) = path
        /\ f[path] = RemoteBody(download_url(ItemPool[id]))

\* C23 as stated: when a run has ended, every file under the save directory
\* holds a complete response body (a failed download has left none), and a
\* reference the second run skips, because its file was there when the first
\* run ended, has a complete file.
C23_NoPartialFile ==
    /\ [](pc = "done" => \A path \in DOMAIN fs : HoldsCompleteBody(fs, path))
    /\ [][\A i \in 1..Len(dl) :
            (/\ run = 2
             /\ dl[i] = "todo"
             /\ dl'[i] = "done"
             /\ PathAt(i) \in DOMAIN fs_prev)
            => HoldsCompleteBody(fs_prev, PathAt(i))]_vars

====
